---- MODULE Spec2Model ----
(***************************************************************************)
(* A model of src/app.py: a single-file Flask URL shortener over SQLite.   *)
(*                                                                         *)
(* Strings are sequences of one-character strings, so that strip(),        *)
(* urlparse() and the character tests of the handlers are computed and     *)
(* not assumed.  The urls table is a bag of rows: nothing but the PRIMARY  *)
(* KEY of the schema, enforced by the INSERT statement, keeps two rows     *)
(* from carrying one code.  Every request runs on its own connection       *)
(* (get_db); a write statement opens a transaction that holds the database *)
(* write lock until commit() or until close_db closes the connection,      *)
(* which rolls the transaction back.  The workers that serve the requests  *)
(* are interchangeable, so the requests in flight form a bag too.          *)
(***************************************************************************)
EXTENDS Integers, Sequences, FiniteSets, Bags, TLC

(***************************************************************************)
(* Bounds                                                                  *)
(***************************************************************************)
\* number of workers: the requests that can be in flight at the same time
NReq == 2
\* value of clicks at which new redirect requests of a code stop arriving
MaxClicks == 2

(***************************************************************************)
(* Configuration                                                           *)
(***************************************************************************)
SHORT_CODE_LENGTH == 6

(***************************************************************************)
(* Strings                                                                 *)
(***************************************************************************)
\* Python's None; no string equals it, its only element is not a character
None == << "None" >>

\* string.ascii_letters + string.digits
FullAlphabet ==
  << "a","b","c","d","e","f","g","h","i","j","k","l","m",
     "n","o","p","q","r","s","t","u","v","w","x","y","z",
     "A","B","C","D","E","F","G","H","I","J","K","L","M",
     "N","O","P","Q","R","S","T","U","V","W","X","Y","Z",
     "0","1","2","3","4","5","6","7","8","9" >>

ALPHABET == { FullAlphabet[i] : i \in 1..Len(FullAlphabet) }

AsciiLetters == { FullAlphabet[i] : i \in 1..52 }
AsciiDigits == { FullAlphabet[i] : i \in 53..62 }
\* letters outside ASCII that str.isalnum() and str.isalpha() accept
NonAsciiLetters == { "é" }
Whitespace == { " ", "\t", "\n" }

\* str.isalnum() of one character
isalnum(c) == c \in AsciiLetters \cup AsciiDigits \cup NonAsciiLetters

\* str.lower() of one character
LowerOf(c) ==
  IF \E i \in 27..52 : FullAlphabet[i] = c
  THEN FullAlphabet[(CHOOSE i \in 27..52 : FullAlphabet[i] = c) - 26]
  ELSE c

lower(s) == [ i \in 1..Len(s) |-> LowerOf(s[i]) ]

\* str.find(ch): the first position of ch in s, 0 when absent (Python: -1)
find(s, ch) ==
  IF \E i \in 1..Len(s) : s[i] = ch
  THEN CHOOSE i \in 1..Len(s) : s[i] = ch /\ \A j \in 1..(i-1) : s[j] # ch
  ELSE 0

RECURSIVE lstrip(_)
lstrip(s) == IF s # << >> /\ Head(s) \in Whitespace THEN lstrip(Tail(s)) ELSE s

RECURSIVE rstrip(_)
rstrip(s) ==
  IF s # << >> /\ s[Len(s)] \in Whitespace
  THEN rstrip(SubSeq(s, 1, Len(s) - 1))
  ELSE s

\* str.strip()
strip(s) == rstrip(lstrip(s))

(***************************************************************************)
(* urllib.parse.urlparse, the scheme and netloc components                 *)
(***************************************************************************)
scheme_chars == AsciiLetters \cup AsciiDigits \cup { "+", "-", "." }

\* the unsafe characters urlsplit removes from the whole url
RemoveUnsafe(s) == SelectSeq(s, LAMBDA c : c \notin { "\t", "\n" })

\* _splitnetloc(url, 2): the text after '//' up to the first of '/', '?', '#'
splitnetloc(s) ==
  LET rest == SubSeq(s, 3, Len(s))
      stops == { i \in 1..Len(rest) : rest[i] \in { "/", "?", "#" } }
      stop == IF stops = {} THEN Len(rest) + 1
              ELSE CHOOSE i \in stops : \A j \in stops : i <= j
  IN SubSeq(rest, 1, stop - 1)

urlparse(u) ==
  LET url == RemoveUnsafe(lstrip(u))
      i == find(url, ":")
      hasScheme == /\ i > 1
                   /\ url[1] \in AsciiLetters
                   /\ \A k \in 1..(i-1) : url[k] \in scheme_chars
      scheme == IF hasScheme THEN lower(SubSeq(url, 1, i - 1)) ELSE << >>
      rest == IF hasScheme THEN SubSeq(url, i + 1, Len(url)) ELSE url
      netloc == IF Len(rest) >= 2 /\ rest[1] = "/" /\ rest[2] = "/"
                THEN splitnetloc(rest) ELSE << >>
  IN [ scheme |-> scheme, netloc |-> netloc ]

s_http == << "h","t","t","p" >>
s_https == << "h","t","t","p","s" >>

\* a validator that returns the trimmed url without the scheme it assumed
validate_no_prefix(original) ==
  IF original = None \/ original = << >> THEN None
  ELSE
    LET url1 == strip(original)
        parsed1 == urlparse(url1)
        url == IF parsed1.scheme = << >> THEN s_http \o << ":","/","/" >> \o url1
               ELSE url1
        parsed == urlparse(url)
    IN IF parsed.scheme \notin { s_http, s_https } \/ parsed.netloc = << >> THEN None
       ELSE url1

\* a validator without the test of the scheme
validate_any_scheme(original) ==
  IF original = None \/ original = << >> THEN None
  ELSE
    LET url1 == strip(original)
        parsed1 == urlparse(url1)
        url == IF parsed1.scheme = << >> THEN s_http \o << ":","/","/" >> \o url1
               ELSE url1
        parsed == IF parsed1.scheme = << >> THEN urlparse(url) ELSE parsed1
    IN IF parsed.netloc = << >> THEN None ELSE url

validate_and_normalize_url(original) ==
  IF original = None \/ original = << >> THEN None
  ELSE
    LET url1 == strip(original)
        parsed1 == urlparse(url1)
        url == IF parsed1.scheme = << >> THEN s_http \o << ":","/","/" >> \o url1
               ELSE url1
        parsed == IF parsed1.scheme = << >> THEN urlparse(url) ELSE parsed1
    IN IF parsed.scheme \notin { s_http, s_https } THEN None
       ELSE IF parsed.netloc = << >> THEN None
       ELSE url

(***************************************************************************)
(* The urls table (init_db) and the SQL statements the handlers execute    *)
(***************************************************************************)
\* cursor.fetchone() when the SELECT matched no row
NoRow == [ code |-> None, url |-> None, created_at |-> -1, clicks |-> -1 ]

\* the rows of a table that carry the code
RowsOf(tbl, code) == { row \in BagToSet(tbl) : row.code = code }

\* a lookup that ignores the code
fetchoneAny(tbl, code) ==
  IF tbl = EmptyBag THEN NoRow ELSE CHOOSE row \in BagToSet(tbl) : TRUE

\* a lookup that finds no row
fetchoneNothing(tbl, code) == NoRow

\* SELECT ... FROM urls WHERE code = ? ; fetchone()
fetchone(tbl, code) ==
  IF RowsOf(tbl, code) = {} THEN NoRow ELSE CHOOSE row \in RowsOf(tbl, code) : TRUE

\* a schema whose code column is not a key: nothing is rejected
PrimaryKeyNotEnforced(tbl, code) == FALSE

\* code TEXT PRIMARY KEY: an INSERT of a code the table holds is rejected
PrimaryKeyViolated(tbl, code) == RowsOf(tbl, code) # {}

\* a row whose counter starts at 1
NewRowOneClick(code, url, now) ==
  [ code |-> code, url |-> url, created_at |-> now, clicks |-> 1 ]

\* the row of INSERT INTO urls (code, url, created_at, clicks) VALUES (?, ?, ?, 0)
NewRow(code, url, now) ==
  [ code |-> code, url |-> url, created_at |-> now, clicks |-> 0 ]

\* INSERT OR IGNORE: an INSERT of a code the table holds does nothing, silently
SqlInsertOrIgnore(tbl, code, url, now) ==
  [ error |-> "",
    rows |-> IF RowsOf(tbl, code) # {} THEN tbl
             ELSE tbl (+) SetToBag({ NewRow(code, url, now) }) ]

\* INSERT OR REPLACE: the rows with the same key are replaced by the new row
SqlInsertOrReplace(tbl, code, url, now) ==
  [ error |-> "",
    rows |-> [ row \in BagToSet(tbl) \ RowsOf(tbl, code) |-> tbl[row] ]
             (+) SetToBag({ NewRow(code, url, now) }) ]

\* the statement against the schema of init_db: sqlite3.IntegrityError and no
\* change when the key is taken, the row added otherwise
SqlInsert(tbl, code, url, now) ==
  IF PrimaryKeyViolated(tbl, code)
  THEN [ error |-> "IntegrityError", rows |-> tbl ]
  ELSE [ error |-> "", rows |-> tbl (+) SetToBag({ NewRow(code, url, now) }) ]

\* the rows of tbl, those with the code having clicks + n for clicks
SetClicks(tbl, code, n) ==
  LET new(row) == IF row.code = code THEN [ row EXCEPT !.clicks = @ + n ] ELSE row
      image == { new(row) : row \in BagToSet(tbl) }
  IN [ nr \in image |->
         BagCardinality([ row \in { x \in BagToSet(tbl) : new(x) = nr } |-> tbl[row] ]) ]

\* UPDATE urls SET clicks = clicks + 1, without the WHERE
UpdateClicksEverywhere(tbl, code) ==
  LET new(row) == [ row EXCEPT !.clicks = @ + 1 ]
  IN [ nr \in { new(row) : row \in BagToSet(tbl) } |->
         BagCardinality([ row \in { x \in BagToSet(tbl) : new(x) = nr } |-> tbl[row] ]) ]

\* UPDATE urls SET clicks = clicks - 1 WHERE code = ?
UpdateClicksDown(tbl, code) ==
  SetClicks(tbl, code, -1)

\* UPDATE urls SET clicks = clicks + 1 WHERE code = ?
UpdateClicks(tbl, code) ==
  SetClicks(tbl, code, 1)

(***************************************************************************)
(* Inputs of the requests                                                  *)
(***************************************************************************)
\* datetime.utcnow()
Timestamps == { 0, 1 }

code_a == [ i \in 1..SHORT_CODE_LENGTH |-> "a" ]
code_b == [ i \in 1..SHORT_CODE_LENGTH |-> IF i = SHORT_CODE_LENGTH THEN "b" ELSE "a" ]
code_space == << "m", "y", " ", "c" >>
code_accent == << "é" >>

\* the codes generate_code draws: two of the strings of SHORT_CODE_LENGTH
\* symbols of ALPHABET
GenCodes == { code \in { code_a, code_b } :
                Len(code) = SHORT_CODE_LENGTH /\ \A i \in 1..Len(code) : code[i] \in ALPHABET }

\* payload.get('url'): a url without scheme and with blanks around it, a url
\* with scheme https, a url with scheme ftp
UrlInputs ==
  { << " ","x",".","c" >>,
    << "h","t","t","p","s",":","/","/","y" >>,
    << "f","t","p",":","/","/","x" >> }

\* the urls the validator is applied to on its own: blanks, a scheme with its
\* colon, slashes, a host, a tail and blanks again, each possibly empty
UrlLead == { << >>, << " " >> }
UrlSchemes == { << >>, << "h", "t", "t", "p", ":" >>, << "h", "t", "t", "p", "s", ":" >>, << "H", "T", "T", "P", ":" >>, << "f", "t", "p", ":" >>, << "x", ".", "c", ":" >> }
UrlSlashes == { << >>, << "/" >>, << "/", "/" >> }
UrlHosts == { << >>, << "x" >>, << "x", ".", "c" >> }
UrlTails == { << >>, << "/", "p" >>, << "?", "q" >>, << ":", "8", "0" >> }
UrlTrail == { << >>, << " " >>, << "\n" >> }

ValidateInputs ==
  { None } \cup
  { lead \o scheme \o slashes \o host \o tail \o trail :
      lead \in UrlLead, scheme \in UrlSchemes, slashes \in UrlSlashes,
      host \in UrlHosts, tail \in UrlTails, trail \in UrlTrail }

\* validate_and_normalize_url, tabulated over the inputs
Normalized == [ original \in UrlInputs |-> validate_and_normalize_url(original) ]

\* payload.get('custom'): absent, a code the generator also draws, a code with
\* a blank
CustomInputs == { None, code_a, code_space }

\* payload.get('custom') of requests that name a custom code, one of them with
\* a letter outside ASCII
CustomInputsUnicode == { code_a, code_accent, code_space }

\* the <code> of the paths /<code> and /stats/<code>
PathCodes == GenCodes

\* request.host_url
host_url == << "h",":","/","/","s","/" >>

RECURSIVE rstrip_slash(_)
rstrip_slash(s) ==
  IF s # << >> /\ s[Len(s)] = "/" THEN rstrip_slash(SubSeq(s, 1, Len(s) - 1)) ELSE s

(***************************************************************************)
(* State                                                                   *)
(***************************************************************************)
VARIABLES
  urls,     \* the committed rows of table urls
  tx,       \* the rows as the open write transaction sees them, empty when none
  reqs,     \* the requests in flight: position in the handler and locals
  conns,    \* the number of open connections (the g.db of the requests in flight)
  last,     \* the response the last step sent, NoResponse when it sent none
  created,  \* history: code, short_url and input of every 201 response
  hits      \* history: per code, the number of 302 responses

vars == << urls, tx, reqs, conns, last, created, hits >>

\* a request that has just arrived
NewRequest(kind) ==
  [ kind |-> kind, pc |-> "start", original |-> None, custom |-> None,
    url |-> None, code |-> None ]

NoResponse ==
  [ kind |-> "none", custom |-> None, code |-> None,
    status |-> 0, error |-> "", out |-> None, row |-> NoRow ]

\* the response to request rec: status, error message of the body, short_url
\* or Location, the row of a stats body
Response(rec, status, error, out, row) ==
  [ kind |-> rec.kind, custom |-> rec.custom, code |-> rec.code,
    status |-> status, error |-> error, out |-> out, row |-> row ]

Init ==
  /\ urls = EmptyBag
  /\ tx = EmptyBag
  /\ reqs = EmptyBag
  /\ conns = 0
  /\ last = NoResponse
  /\ created = EmptyBag
  /\ hits = [ c \in PathCodes |-> 0 ]

\* the redirect requests of code in flight
RedirectsInFlight(code) ==
  [ rec \in { x \in BagToSet(reqs) : x.kind = "redirect" /\ x.code = code } |-> reqs[rec] ]

\* a worker is free to take a request
WorkerFree == BagCardinality(reqs) < NReq

\* a connection holds the write lock: its transaction is open
WriteLocked == \E rec \in BagToSet(reqs) : rec.pc = "commit"

\* request old goes on as new
Step(old, new) == reqs' = (reqs (-) SetToBag({ old })) (+) SetToBag({ new })

\* a teardown that lets the request leave with its connection open
LeaveOpen(rec) ==
  /\ reqs' = reqs (-) SetToBag({ rec })
  /\ conns' = conns

\* close_db after a handler that had get_db open the connection: the request
\* leaves, its connection is closed
Leave(rec) ==
  /\ reqs' = reqs (-) SetToBag({ rec })
  /\ conns' = conns - 1

(***************************************************************************)
(* POST /shorten                                                           *)
(***************************************************************************)
\* all(c.isalnum() or c in ('-','_') for c in custom)
CustomCharsOk(custom) ==
  \A i \in 1..Len(custom) : isalnum(custom[i]) \/ custom[i] \in { "-", "_" }

\* shorten up to its first return, or up to the INSERT: the payload is read, the
\* url validated, the connection opened, the custom code checked and looked up.
\* A request that returns here has its connection closed by close_db at once.
ShortenStartFrom(Customs) ==
  /\ WorkerFree
  /\ \E original \in UrlInputs, custom \in Customs :
       LET url == Normalized[original]
           rec == [ NewRequest("shorten") EXCEPT !.original = original,
                                                 !.custom = custom, !.url = url ]
       IN IF url = None
          THEN /\ last' = Response(rec, 400, "Invalid URL", None, NoRow)
               /\ UNCHANGED << reqs, conns >>
          ELSE IF custom # None /\ custom # << >>
          THEN IF ~ CustomCharsOk(custom)
               THEN /\ last' = Response(rec, 400, "Invalid characters in custom code",
                                        None, NoRow)
                    /\ UNCHANGED << reqs, conns >>
               ELSE IF fetchone(urls, custom) # NoRow
               THEN /\ last' = Response(rec, 409, "Custom code in use", None, NoRow)
                    /\ UNCHANGED << reqs, conns >>
               ELSE /\ reqs' = reqs (+) SetToBag({ [ rec EXCEPT !.pc = "insert",
                                                                !.code = custom ] })
                    /\ conns' = conns + 1
                    /\ last' = NoResponse
          ELSE /\ reqs' = reqs (+) SetToBag({ [ rec EXCEPT !.pc = "gen" ] })
               /\ conns' = conns + 1
               /\ last' = NoResponse
  /\ UNCHANGED << urls, tx, created, hits >>

\* a shorten that runs the INSERT before it looks at the custom code
ShortenStartInsertFirst ==
  /\ WorkerFree
  /\ \E original \in UrlInputs, custom \in CustomInputs \ { None } :
       LET url == Normalized[original]
           rec == [ NewRequest("shorten") EXCEPT !.original = original,
                                                 !.custom = custom, !.url = url ]
       IN /\ url # None
          /\ ~ CustomCharsOk(custom)
          /\ urls' = SqlInsert(urls, custom, url, 0).rows
          /\ last' = Response(rec, 400, "Invalid characters in custom code", None, NoRow)
  /\ UNCHANGED << tx, reqs, conns, created, hits >>

\* a shorten request arrives, with or without custom code
ShortenStart == ShortenStartFrom(CustomInputs)

\* a shorten request with a custom code arrives
ShortenCustomStart == ShortenStartFrom(CustomInputs \ { None })

\* a shorten request with a custom code, possibly with letters outside ASCII,
\* arrives
ShortenUnicodeStart == ShortenStartFrom(CustomInputsUnicode)

\* url = validate_and_normalize_url(original), on its own
ValidateUrl(rec) ==
  /\ rec.pc = "validate"
  /\ Step(rec, [ rec EXCEPT !.pc = "validated",
                            !.url = validate_and_normalize_url(rec.original) ])
  /\ last' = NoResponse
  /\ UNCHANGED << urls, tx, conns, created, hits >>

\* a generate_code that returns the code it drew without looking it up
GenerateCodeUnchecked(rec, code) ==
  /\ rec.pc = "gen"
  /\ Step(rec, [ rec EXCEPT !.pc = "insert", !.code = code ])
  /\ last' = NoResponse
  /\ UNCHANGED << urls, tx, conns, created, hits >>

\* one turn of the loop of generate_code in which secrets.choice draws code:
\* the code is looked up and returned when the table does not hold it
GenerateCodeDraw(rec, code) ==
  /\ rec.pc = "gen"
  /\ IF fetchone(urls, code) = NoRow
     THEN Step(rec, [ rec EXCEPT !.pc = "insert", !.code = code ])
     ELSE reqs' = reqs
  /\ last' = NoResponse
  /\ UNCHANGED << urls, tx, conns, created, hits >>

\* one turn of the loop of generate_code
GenerateCode(rec) == \E code \in GenCodes : GenerateCodeDraw(rec, code)

\* an INSERT that stores the url as submitted instead of the normalized url
ShortenInsertOriginal(rec) ==
  /\ rec.pc = "insert"
  /\ ~ WriteLocked
  /\ \E now \in Timestamps :
       LET res == SqlInsert(urls, rec.code, rec.original, now)
       IN IF res.error # ""
          THEN /\ Leave(rec)
               /\ last' = Response(rec, 500, res.error, None, NoRow)
               /\ tx' = tx
          ELSE /\ Step(rec, [ rec EXCEPT !.pc = "commit" ])
               /\ tx' = res.rows
               /\ last' = NoResponse
               /\ conns' = conns
  /\ UNCHANGED << urls, created, hits >>

\* db.execute('INSERT ...'): the statement waits for the write lock, opens the
\* transaction and inserts.  A code the table holds raises
\* sqlite3.IntegrityError, which no handler catches: the request ends in a 500
\* and close_db rolls the transaction back.
ShortenInsert(rec) ==
  /\ rec.pc = "insert"
  /\ ~ WriteLocked
  /\ \E now \in Timestamps :
       LET res == SqlInsert(urls, rec.code, rec.url, now)
       IN IF res.error # ""
          THEN /\ Leave(rec)
               /\ last' = Response(rec, 500, res.error, None, NoRow)
               /\ tx' = tx
          ELSE /\ Step(rec, [ rec EXCEPT !.pc = "commit" ])
               /\ tx' = res.rows
               /\ last' = NoResponse
               /\ conns' = conns
  /\ UNCHANGED << urls, created, hits >>

\* db.commit() and the 201 response with short_url
ShortenCommit(rec) ==
  /\ rec.pc = "commit"
  /\ rec.kind = "shorten"
  /\ urls' = tx
  /\ tx' = EmptyBag
  /\ Leave(rec)
  /\ LET short_url == rstrip_slash(host_url) \o << "/" >> \o rec.code
     IN /\ last' = Response(rec, 201, "", short_url, NoRow)
        /\ created' = created (+) SetToBag({ [ code |-> rec.code,
                                                short_url |-> short_url,
                                                original |-> rec.original ] })
  /\ hits' = hits

(***************************************************************************)
(* GET /<code>                                                             *)
(***************************************************************************)
\* redirect_code up to the 404 or up to the UPDATE: the row is looked up
RedirectStart ==
  /\ WorkerFree
  /\ \E code \in PathCodes :
       LET row == fetchone(urls, code)
           rec == [ NewRequest("redirect") EXCEPT !.code = code ]
       IN /\ row # NoRow => row.clicks + BagCardinality(RedirectsInFlight(code)) < MaxClicks
          /\ IF row = NoRow
             THEN /\ last' = Response(rec, 404, "Not found", None, NoRow)
                  /\ UNCHANGED << reqs, conns >>
             ELSE /\ reqs' = reqs (+) SetToBag({ [ rec EXCEPT !.pc = "update",
                                                              !.url = row.url ] })
                  /\ conns' = conns + 1
                  /\ last' = NoResponse
  /\ UNCHANGED << urls, tx, created, hits >>

\* db.execute('UPDATE ...'): waits for the write lock, opens the transaction
RedirectUpdate(rec) ==
  /\ rec.pc = "update"
  /\ ~ WriteLocked
  /\ tx' = UpdateClicks(urls, rec.code)
  /\ Step(rec, [ rec EXCEPT !.pc = "commit" ])
  /\ last' = NoResponse
  /\ UNCHANGED << urls, conns, created, hits >>

\* a redirect that answers without db.commit(): close_db rolls the UPDATE back
RedirectNoCommit(rec) ==
  /\ rec.pc = "commit"
  /\ rec.kind = "redirect"
  /\ tx' = EmptyBag
  /\ Leave(rec)
  /\ last' = Response(rec, 302, "", rec.url, NoRow)
  /\ hits' = [ hits EXCEPT ![rec.code] = @ + 1 ]
  /\ UNCHANGED << urls, created >>

\* db.commit() and redirect(row['url'])
RedirectCommit(rec) ==
  /\ rec.pc = "commit"
  /\ rec.kind = "redirect"
  /\ urls' = tx
  /\ tx' = EmptyBag
  /\ Leave(rec)
  /\ last' = Response(rec, 302, "", rec.url, NoRow)
  /\ hits' = [ hits EXCEPT ![rec.code] = @ + 1 ]
  /\ created' = created

\* the UPDATE of line 158 or the commit of line 159 raises a storage error
\* (sqlite3.OperationalError: the database stays locked, the disk is full):
\* no handler catches it, the request ends in a 500 and close_db rolls back
\* what the request had written
RedirectStorageError(rec) ==
  /\ rec.kind = "redirect"
  /\ rec.pc \in { "update", "commit" }
  /\ tx' = IF rec.pc = "commit" THEN EmptyBag ELSE tx
  /\ Leave(rec)
  /\ last' = Response(rec, 500, "OperationalError", None, NoRow)
  /\ UNCHANGED << urls, created, hits >>

(***************************************************************************)
(* GET /stats/<code>                                                       *)
(***************************************************************************)
\* a stats handler that counts its own visit as a click
StatsCounting ==
  /\ WorkerFree
  /\ ~ WriteLocked
  /\ \E code \in PathCodes :
       LET row == fetchone(urls, code)
           rec == [ NewRequest("stats") EXCEPT !.code = code ]
       IN /\ row # NoRow => row.clicks < MaxClicks
          /\ urls' = UpdateClicks(urls, code)
          /\ IF row = NoRow
             THEN last' = Response(rec, 404, "Not found", None, NoRow)
             ELSE last' = Response(rec, 200, "", None, row)
  /\ UNCHANGED << tx, reqs, conns, created, hits >>

\* stats: the row is looked up and serialized; nothing is written
Stats ==
  /\ WorkerFree
  /\ \E code \in PathCodes :
       LET row == fetchone(urls, code)
           rec == [ NewRequest("stats") EXCEPT !.code = code ]
       IN IF row = NoRow
          THEN last' = Response(rec, 404, "Not found", None, NoRow)
          ELSE last' = Response(rec, 200, "", None, row)
  /\ UNCHANGED << urls, tx, reqs, conns, created, hits >>

Next ==
  \/ ShortenStart
  \/ RedirectStart
  \/ Stats
  \/ \E rec \in BagToSet(reqs) :
       \/ GenerateCode(rec)
       \/ ShortenInsert(rec)
       \/ ShortenCommit(rec)
       \/ RedirectUpdate(rec)
       \/ RedirectCommit(rec)

Spec == Init /\ [][Next]_vars

\* the service when every shorten request names a custom code
NextCustom ==
  \/ ShortenCustomStart
  \/ RedirectStart
  \/ Stats
  \/ \E rec \in BagToSet(reqs) :
       \/ ShortenInsert(rec)
       \/ ShortenCommit(rec)
       \/ RedirectUpdate(rec)
       \/ RedirectCommit(rec)

SpecCustom == Init /\ [][NextCustom]_vars

\* the service when the custom codes may hold letters outside ASCII
NextUnicode ==
  \/ ShortenUnicodeStart
  \/ RedirectStart
  \/ Stats
  \/ \E rec \in BagToSet(reqs) :
       \/ ShortenInsert(rec)
       \/ ShortenCommit(rec)
       \/ RedirectUpdate(rec)
       \/ RedirectCommit(rec)

SpecUnicode == Init /\ [][NextUnicode]_vars

\* the service on a storage whose writes may fail
NextFaulty ==
  \/ Next
  \/ \E rec \in BagToSet(reqs) : RedirectStorageError(rec)

SpecFaulty == Init /\ [][NextFaulty]_vars

\* the validator applied to one url
InitValidate ==
  /\ \E original \in ValidateInputs :
       reqs = SetToBag({ [ NewRequest("shorten") EXCEPT !.pc = "validate",
                                                        !.original = original ] })
  /\ urls = EmptyBag
  /\ tx = EmptyBag
  /\ conns = 0
  /\ last = NoResponse
  /\ created = EmptyBag
  /\ hits = [ c \in PathCodes |-> 0 ]

NextValidate == \E rec \in BagToSet(reqs) : ValidateUrl(rec)

SpecValidate == InitValidate /\ [][NextValidate]_vars

\* the shorten requests alone, with draws that are fair: a code that could be
\* drawn and returned is not passed over for ever
NextShorten ==
  \/ ShortenStart
  \/ \E rec \in BagToSet(reqs) :
       \/ GenerateCode(rec)
       \/ ShortenInsert(rec)
       \/ ShortenCommit(rec)

FairDraws ==
  \A code \in GenCodes :
    WF_vars(\E rec \in BagToSet(reqs) : GenerateCodeDraw(rec, code))

SpecFairDraws == Init /\ [][NextShorten]_vars /\ FairDraws

TypeOK ==
  /\ BagCardinality(reqs) <= NReq
  /\ conns = BagCardinality(reqs)
  /\ \A rec \in BagToSet(reqs) : rec.pc \in { "gen", "insert", "update", "commit" }
  /\ \A row \in BagToSet(urls) : row.clicks \in 0..MaxClicks

(***************************************************************************)
(* Properties                                                              *)
(***************************************************************************)
\* a code of the form [A-Za-z0-9_-]+
WellFormed(code) ==
  /\ code # None
  /\ code # << >>
  /\ \A i \in 1..Len(code) : code[i] \in AsciiLetters \cup AsciiDigits \cup { "-", "_" }

\* the 201 responses so far that carry code c
CreatedOf(c) == [ e \in { x \in BagToSet(created) : x.code = c } |-> created[e] ]

\* C1: when every shorten request names a custom code, a request with a valid
\* url and a well-formed custom code answers 201 or 409 'Custom code in use',
\* and exactly one request has then answered 201 for that code
C1_OneCreatedOthersConflict ==
  ( /\ last.kind = "shorten"
    /\ WellFormed(last.custom)
    /\ last.error # "Invalid URL" )
  => /\ \/ last.status = 201
        \/ last.status = 409 /\ last.error = "Custom code in use"
     /\ BagCardinality(CreatedOf(last.custom)) = 1

\* C2: the table never holds two rows with the same code
C2_CodeUnique ==
  \A row \in BagToSet(urls) :
    /\ CopiesIn(row, urls) = 1
    /\ RowsOf(urls, row.code) = { row }

\* C2 witness: two rows are stored and the INSERT of a stored code has just
\* been refused
C2_Witness ==
  /\ BagCardinality(urls) = 2
  /\ last.error = "IntegrityError"

\* C3: no two 201 responses carry the same code (nor the same short_url), be
\* the code custom or generated
C3_CreatedOnce ==
  \A e1 \in BagToSet(created) :
    /\ CopiesIn(e1, created) = 1
    /\ \A e2 \in BagToSet(created) :
         ( e1.code = e2.code \/ e1.short_url = e2.short_url ) => e1 = e2

\* C3 witness: a request without custom code is answered 201 with the second
\* code created
C3_Witness ==
  /\ last.kind = "shorten" /\ last.status = 201 /\ last.custom = None
  /\ BagCardinality(created) = 2

\* C4: no increment is lost: the clicks of every stored code equal the number
\* of redirect requests of that code answered 302, whatever their interleaving
C4_NoLostClicks ==
  \A row \in BagToSet(urls) : row.clicks = hits[row.code]

\* C4 witness: of two redirects of one code that looked the row up before
\* either wrote, the first has just answered and the other has yet to write
C4_Witness ==
  /\ last.kind = "redirect" /\ last.status = 302
  /\ hits[last.code] = 1
  /\ \E row \in RowsOf(urls, last.code) : row.clicks = 1
  /\ \E rec \in BagToSet(reqs) :
       rec.kind = "redirect" /\ rec.code = last.code /\ rec.pc = "update"

\* C5: a redirect of a code that a shorten request of url u answered 201 with
\* answers 302 with Location validate_and_normalize_url(u)
C5_RoundTrip ==
  \A e \in BagToSet(created) :
    ( last.kind = "redirect" /\ last.code = e.code )
    => /\ last.status = 302
       /\ last.out = validate_and_normalize_url(e.original)

\* C5 witness: a redirect answers with a Location that differs from the url
\* that was submitted
C5_Witness ==
  /\ last.kind = "redirect" /\ last.status = 302
  /\ \E e \in BagToSet(created) : e.code = last.code /\ e.original # last.out

\* C6: the clicks in a 200 stats body equal the number of redirect requests
\* of that code answered 302 so far
C6_StatsCountsRedirects ==
  ( last.kind = "stats" /\ last.status = 200 )
  => last.row.clicks = hits[last.code]

\* C6 witness: a stats request after two redirects of the code
C6_Witness ==
  /\ last.kind = "stats" /\ last.status = 200
  /\ last.row.clicks = 2
  /\ reqs = EmptyBag

\* C7: a stats request changes neither the table nor any transaction
C7_StatsReadOnly ==
  [][ last'.kind = "stats" => urls' = urls /\ tx' = tx /\ reqs' = reqs ]_vars

\* C7 witness: a stats request of a stored code has answered
C7_Witness ==
  /\ last.kind = "stats" /\ last.status = 200
  /\ last.row \in BagToSet(urls)

\* no row, committed or not, has negative clicks
ClicksNonNegative ==
  \A row \in BagToSet(urls) \cup BagToSet(tx) : row.clicks >= 0

\* C8: clicks are never negative and the clicks of a code never decrease
C8_ClicksMonotone ==
  /\ []ClicksNonNegative
  /\ [][ \A row \in BagToSet(urls) : \A row2 \in BagToSet(urls') :
           row.code = row2.code => row2.clicks >= row.clicks ]_vars

\* C8 witness: a stored row has been clicked
C8_Witness ==
  \E row \in BagToSet(urls) : row.clicks > 0 /\ hits[row.code] > 0

\* C9: a stored row is never deleted and its url and created_at never change
C9_RecordsKept ==
  [][ \A row \in BagToSet(urls) : \E row2 \in BagToSet(urls') :
        /\ row2.code = row.code
        /\ row2.url = row.url
        /\ row2.created_at = row.created_at ]_vars

\* C9 witness: a shorten request naming a stored code has been refused, and
\* the row has been clicked
C9_Witness ==
  /\ last.kind = "shorten" /\ last.status = 409
  /\ \E row \in RowsOf(urls, last.custom) : row.clicks > 0

C11_StoredCodesWellFormed ==
  /\ \A row \in BagToSet(urls) : WellFormed(row.code)
  /\ ( /\ last.kind = "shorten"
       /\ last.custom # None
       /\ ~ WellFormed(last.custom)
       /\ last.error # "Invalid URL" )
     => /\ last.status = 400
        /\ last.error = "Invalid characters in custom code"

\* C12: a shorten request that answers 400 leaves the table and every open
\* transaction as they were
C12_RejectedWritesNothing ==
  [][ ( last'.kind = "shorten" /\ last'.status = 400 )
      => urls' = urls /\ tx' = tx ]_vars

\* C12 witness: a custom code with a blank has been refused while a row is
\* stored and another request holds an open transaction
C12_Witness ==
  /\ last.kind = "shorten" /\ last.status = 400
  /\ last.error = "Invalid characters in custom code"
  /\ urls # EmptyBag
  /\ tx # EmptyBag

\* C13: a shorten request with a valid url and a well-formed custom code that
\* is stored when the request arrives does not go on to the INSERT: it answers
\* 409 'Custom code in use' at once and leaves table and transactions unchanged
C13_StoredCustomConflict ==
  [][ /\ \A rec \in BagToSet(reqs') :
           ( /\ rec.kind = "shorten" /\ rec.pc = "insert" /\ rec.custom # None
             /\ CopiesIn(rec, reqs') > CopiesIn(rec, reqs) )
           => RowsOf(urls, rec.custom) = { }
      /\ ( /\ last'.kind = "shorten"
           /\ reqs' = reqs
           /\ WellFormed(last'.custom)
           /\ last'.error # "Invalid URL"
           /\ RowsOf(urls, last'.custom) # { } )
         => /\ last'.status = 409
            /\ last'.error = "Custom code in use"
            /\ urls' = urls
            /\ tx' = tx ]_vars

\* C13 witness: with no other request in flight, a shorten request naming a
\* stored and clicked code has been answered 409
C13_Witness ==
  /\ last.kind = "shorten" /\ last.status = 409
  /\ reqs = EmptyBag
  /\ \E row \in RowsOf(urls, last.custom) : row.clicks = MaxClicks

\* C14: a redirect or stats request of a code that has no row answers 404
\* 'Not found' at once, without going on to the UPDATE, and leaves table,
\* transactions and the other requests unchanged
C14_UnknownCodeNotFound ==
  [][ /\ \A rec \in BagToSet(reqs') :
           ( rec.kind = "redirect" /\ rec.pc = "update"
             /\ CopiesIn(rec, reqs') > CopiesIn(rec, reqs) )
           => RowsOf(urls, rec.code) # { }
      /\ ( last'.kind \in { "redirect", "stats" } /\ RowsOf(urls, last'.code) = { } )
         => /\ last'.status = 404
            /\ last'.error = "Not found"
            /\ urls' = urls
            /\ tx' = tx
            /\ reqs' = reqs ]_vars

\* C14 witness: a redirect of a code without row has been answered 404 while
\* another code is stored and a transaction is open
C14_Witness ==
  /\ last.kind = "redirect" /\ last.status = 404
  /\ RowsOf(urls, last.code) = { }
  /\ urls # EmptyBag
  /\ tx # EmptyBag

\* C15: a redirect request of a stored code answers 302 with the stored url
\* for Location, also when its UPDATE or its commit fails on a storage error
C15_RedirectSurvivesStorageError ==
  ( last.kind = "redirect" /\ RowsOf(urls, last.code) # { } )
  => /\ last.status = 302
     /\ \E row \in RowsOf(urls, last.code) : last.out = row.url

\* the cases of the validator that the specification of the service names:
\* input and result
ValidateExamples ==
  { << << >>, None >>,
    << << " ", " " >>, None >>,
    << << " ", "\n" >>, None >>,
    << << "f", "t", "p", ":", "/", "/", "x", ".", "c" >>, None >>,
    << << "h", "t", "t", "p", ":", "/", "/" >>, None >>,
    << << "x", ".", "c" >>, << "h", "t", "t", "p", ":", "/", "/", "x", ".", "c" >> >>,
    << << " ", "x", ".", "c", "\n" >>, << "h", "t", "t", "p", ":", "/", "/", "x", ".", "c" >> >>,
    << << "h", "t", "t", "p", ":", "/", "/", "x", ".", "c" >>, << "h", "t", "t", "p", ":", "/", "/", "x", ".", "c" >> >>,
    << << " ", "h", "t", "t", "p", "s", ":", "/", "/", "x", ".", "c", "/", "p", " " >>, << "h", "t", "t", "p", "s", ":", "/", "/", "x", ".", "c", "/", "p" >> >> }

\* the url that comes out of a trimmed input when it is valid: the input, with
\* http:// before it when it has no scheme
Qualified(trimmed) ==
  IF urlparse(trimmed).scheme = << >>
  THEN << "h","t","t","p",":","/","/" >> \o trimmed
  ELSE trimmed

C17_GeneratedCodeConflictRetried ==
  ( /\ last.kind = "shorten"
    /\ last.custom = None
    /\ last.error # "Invalid URL" )
  => last.status = 201

\* a step of a redirect request: it arrives, goes on or answers
RedirectStep ==
  \/ last'.kind = "redirect"
  \/ \E rec \in BagToSet(reqs') :
       rec.kind = "redirect" /\ CopiesIn(rec, reqs') > CopiesIn(rec, reqs)

\* C18: a redirect request that answers 302 adds one to the clicks of the row
\* of its code and changes nothing else of the table: no other field, no other
\* row, no new row; every other step of a redirect request leaves the table
\* as it was
C18_RedirectFrame ==
  [][ RedirectStep =>
        IF last'.kind = "redirect" /\ last'.status = 302
        THEN /\ BagCardinality(urls') = BagCardinality(urls)
             /\ \A row \in BagToSet(urls) :
                  IF row.code = last'.code
                  THEN CopiesIn([ row EXCEPT !.clicks = @ + 1 ], urls') = 1
                  ELSE CopiesIn(row, urls') = CopiesIn(row, urls)
        ELSE urls' = urls ]_vars

\* C18 witness: a redirect has answered 302 while the row of another code,
\* never clicked, is stored
C18_Witness ==
  /\ last.kind = "redirect" /\ last.status = 302
  /\ BagCardinality(urls) = 2
  /\ \E row \in BagToSet(urls) : row.code # last.code /\ row.clicks = 0
  /\ \E row \in BagToSet(urls) : row.code = last.code /\ row.clicks = 1

\* a request is inside generate_code
GenWaiting == \E rec \in BagToSet(reqs) : rec.pc = "gen"

\* the codes of the generator that the table does not hold
UnusedCodes == { code \in GenCodes : RowsOf(urls, code) = { } }

\* C19: the code with which generate_code returns was absent from the table
\* when it was looked up, and with fair draws a request does not stay inside
\* generate_code for ever while a code is unused
C19_GenerateCodeReturns ==
  /\ [][ \A rec \in BagToSet(reqs') :
           ( /\ rec.pc = "insert" /\ rec.custom = None
             /\ CopiesIn(rec, reqs') > CopiesIn(rec, reqs) )
           => RowsOf(urls, rec.code) = { } ]_vars
  /\ ( GenWaiting /\ UnusedCodes # { } ) ~> ( ~ GenWaiting \/ UnusedCodes = { } )

\* C19 witness: generate_code has returned the one code that was unused
C19_Witness ==
  /\ urls # EmptyBag
  /\ \E rec \in BagToSet(reqs) :
       rec.pc = "insert" /\ rec.custom = None /\ UnusedCodes = { rec.code }

\* C20: the open connections are those of the requests in flight, one each:
\* a request that has ended, with whatever response, has left none open
C20_NoConnectionLeak ==
  /\ conns = BagCardinality(reqs)
  /\ ( last # NoResponse /\ reqs = EmptyBag ) => conns = 0

\* C20 witness: a request has ended in an unhandled IntegrityError after
\* generate_code and the INSERT used its connection, and none is open
C20_Witness ==
  /\ last.kind = "shorten" /\ last.status = 500 /\ last.custom = None
  /\ reqs = EmptyBag
  /\ conns = 0

====
